---- MODULE Spec2Model ----
(***************************************************************************)
(* A model of srtm-dted.py: the DTED elevation codec (decode_be16nc), the  *)
(* coordinate model (GeoCoord), the tile decoder (DTED.fromfile) and the   *)
(* lookup (height).                                                        *)
(*                                                                         *)
(* Conventions                                                             *)
(*   - a Python str is a sequence of one-character strings, a Python bytes *)
(*     object is a sequence of integers 0..255;                            *)
(*   - a Python int-or-None value is a record [tag, val] (NoneV, IntV(v)); *)
(*   - a raised exception is a record whose field exc names its class;     *)
(*   - a Python float is a record [neg, mant, exp] standing for            *)
(*     (-1)^neg * mant * 2^exp with mant a 53-bit natural held in limbs,   *)
(*     so that float(), the float multiplication and trunc() round exactly *)
(*     as IEEE-754 binary64 does.                                          *)
(***************************************************************************)
EXTENDS Integers, Sequences, FiniteSets, TLC

VARIABLES
    pc,        \* position of the running call
    raw,       \* decode_be16nc: the argument x
    elev,      \* decode_be16nc: the returned value
    token,     \* GeoCoord(str): the argument str
    coord,     \* the GeoCoord object (type, hemi, hms), or the exception raised
    sub,       \* the value returned by coord.sub_coord()
    frag,      \* the value returned by coord.mapname()
    file,      \* DTED.fromfile: the bytes of the opened file
    pos,       \* DTED.fromfile: the file position of f
    tile,      \* the DTED object's attributes (num_long, num_lat, data)
    i,         \* DTED.fromfile: the loop variable of the record loop
    outcome,   \* DTED(file): the exception raised, if any
    dted,      \* the object DTED(file) returned to its caller, if it returned
    coordstr,  \* height: the argument coordstr
    opened,    \* height: the file names passed to open(), in order
    hres       \* height: the returned value or the exception raised

vars == <<pc, raw, elev, token, coord, sub, frag, file, pos, tile, i, outcome,
          dted, coordstr, opened, hres>>

-----------------------------------------------------------------------------
(* Values *)

NoneV == [tag |-> "None", val |-> 0]

IntV(v) == [tag |-> "int", val |-> v]

Unset == [tag |-> "unset", val |-> 0]

Min(a, b) == IF a < b THEN a ELSE b

Max(a, b) == IF a < b THEN b ELSE a

Pow(b, n) == b ^ n

-----------------------------------------------------------------------------
(* Elevation codec *)

\* 0xffff is not recognised: the numeric branch handles it.
decode_be16nc_nosentinel(x) ==
    IF x >= 32768 THEN IntV(32768 - x) ELSE IntV(x)

\* def decode_be16nc(x)
decode_be16nc(x) ==
    IF x = 65535 THEN NoneV
    ELSE IF x >= 32768 THEN IntV(32768 - x)
    ELSE IntV(x)

-----------------------------------------------------------------------------
(* Naturals of any size, as little-endian sequences of limbs in base 2^13   *)
(* without leading zero limbs (TLC's integers are 32 bits wide; a binary64  *)
(* significand is 53 bits wide).                                            *)

LimbBits == 13

LimbBase == Pow(2, LimbBits)

RECURSIVE BigNorm(_)
BigNorm(a) ==
    IF a = <<>> THEN <<>>
    ELSE IF a[Len(a)] = 0 THEN BigNorm(SubSeq(a, 1, Len(a) - 1))
    ELSE a

RECURSIVE BigFromInt(_)
BigFromInt(n) ==
    IF n = 0 THEN <<>> ELSE <<n % LimbBase>> \o BigFromInt(n \div LimbBase)

RECURSIVE BigToInt(_)
BigToInt(a) ==
    IF a = <<>> THEN 0 ELSE a[1] + LimbBase * BigToInt(Tail(a))

RECURSIVE BigMulCarry(_, _, _)
BigMulCarry(a, c, carry) ==
    IF a = <<>> THEN BigFromInt(carry)
    ELSE LET t == a[1] * c + carry
         IN  <<t % LimbBase>> \o BigMulCarry(Tail(a), c, t \div LimbBase)

\* a * c, for 0 <= c < 2^17
BigMulSmall(a, c) == BigNorm(BigMulCarry(a, c, 0))

\* a + 1
BigInc(a) ==
    LET RECURSIVE Inc(_)
        Inc(b) == IF b = <<>> THEN <<1>>
                  ELSE IF b[1] + 1 < LimbBase THEN <<b[1] + 1>> \o Tail(b)
                  ELSE <<0>> \o Inc(Tail(b))
    IN  Inc(a)

\* the remainder of (limbs j..Len(a) of a) divided by d, for 0 < d < 2^17
RECURSIVE BigRemFrom(_, _, _)
BigRemFrom(a, d, j) ==
    IF j > Len(a) THEN 0 ELSE (BigRemFrom(a, d, j + 1) * LimbBase + a[j]) % d

\* [q |-> a \div d, r |-> a % d], for 0 < d < 2^17
BigDivSmall(a, d) ==
    [q |-> BigNorm([j \in 1..Len(a) |->
                      (BigRemFrom(a, d, j + 1) * LimbBase + a[j]) \div d]),
     r |-> BigRemFrom(a, d, 1)]

\* a * 2^s
BigShl(a, s) ==
    IF a = <<>> THEN <<>>
    ELSE BigMulSmall([j \in 1..(s \div LimbBits) |-> 0] \o a, Pow(2, s % LimbBits))

\* a \div 2^s
BigShr(a, s) ==
    IF s \div LimbBits >= Len(a) THEN <<>>
    ELSE BigDivSmall(SubSeq(a, (s \div LimbBits) + 1, Len(a)), Pow(2, s % LimbBits)).q

RECURSIVE BitLenInt(_)
BitLenInt(n) == IF n = 0 THEN 0 ELSE 1 + BitLenInt(n \div 2)

BigBitLen(a) ==
    IF a = <<>> THEN 0 ELSE LimbBits * (Len(a) - 1) + BitLenInt(a[Len(a)])

\* bit k of a (bit 0 is the least significant)
BigBit(a, k) ==
    IF (k \div LimbBits) + 1 > Len(a) THEN 0
    ELSE (a[(k \div LimbBits) + 1] \div Pow(2, k % LimbBits)) % 2

\* whether some bit of a below bit k is set
BigAnyBelow(a, k) ==
    \/ \E j \in 1..Min(k \div LimbBits, Len(a)) : a[j] # 0
    \/ /\ (k \div LimbBits) + 1 <= Len(a)
       /\ a[(k \div LimbBits) + 1] % Pow(2, k % LimbBits) # 0

-----------------------------------------------------------------------------
(* IEEE-754 binary64, round to nearest, ties to even                        *)

MantBits == 53

FZero(neg) == [neg |-> neg, mant |-> <<>>, exp |-> 0]

\* The binary64 nearest to (p + f) * 2^e where p is a natural with at least
\* MantBits + 2 bits when inexact is TRUE, 0 <= f < 1, and inexact says f > 0.
RoundToDouble(neg, p, inexact, e) ==
    LET L == BigBitLen(p)
        s == L - MantBits
    IN  IF p = <<>> THEN FZero(neg)
        ELSE IF s <= 0 THEN [neg |-> neg, mant |-> BigShl(p, -s), exp |-> e + s]
        ELSE LET q      == BigShr(p, s)
                 guard  == BigBit(p, s - 1)
                 sticky == inexact \/ BigAnyBelow(p, s - 1)
                 up     == guard = 1 /\ (sticky \/ BigBit(q, 0) = 1)
                 q1     == IF up THEN BigInc(q) ELSE q
             IN  IF BigBitLen(q1) > MantBits
                 THEN [neg |-> neg, mant |-> BigShr(q1, 1), exp |-> e + s + 1]
                 ELSE [neg |-> neg, mant |-> q1, exp |-> e + s]

\* The binary64 nearest to n / d, for naturals n < 2^31 and 0 < d < 2^17.
FloatOfRatio(neg, n, d) ==
    LET t  == (MantBits + 2) + BitLenInt(d) - BitLenInt(n)
        qr == BigDivSmall(BigShl(BigFromInt(n), t), d)
    IN  IF n = 0 THEN FZero(neg)
        ELSE RoundToDouble(neg, qr.q, qr.r # 0, -t)

\* c * x for a Python int 0 <= c < 2^17 and a float x: c converts to the
\* float of the same value and the product is rounded once.
FMulInt(c, x) == RoundToDouble(x.neg, BigMulSmall(x.mant, c), FALSE, x.exp)

\* math.trunc(x), for |x| < 2^31
trunc(x) ==
    LET m == IF x.mant = <<>> THEN 0
             ELSE IF x.exp >= 0 THEN BigToInt(BigShl(x.mant, x.exp))
             ELSE BigToInt(BigShr(x.mant, -x.exp))
    IN  IF x.neg THEN -m ELSE m

-----------------------------------------------------------------------------
(* Strings *)

Digits == <<"0", "1", "2", "3", "4", "5", "6", "7", "8", "9">>

IsDigit(c) == \E d \in 1..10 : Digits[d] = c

DigitVal(c) == (CHOOSE d \in 1..10 : Digits[d] = c) - 1

LowerCase == <<"a", "b", "c", "d", "e", "f", "g", "h", "i", "j", "k", "l", "m",
               "n", "o", "p", "q", "r", "s", "t", "u", "v", "w", "x", "y", "z">>

UpperCase == <<"A", "B", "C", "D", "E", "F", "G", "H", "I", "J", "K", "L", "M",
               "N", "O", "P", "Q", "R", "S", "T", "U", "V", "W", "X", "Y", "Z">>

\* str.upper() of one character
upper(c) ==
    IF \E k \in 1..26 : LowerCase[k] = c
    THEN UpperCase[CHOOSE k \in 1..26 : LowerCase[k] = c]
    ELSE c

RECURSIVE DigitsToInt(_)
DigitsToInt(s) ==
    IF s = <<>> THEN 0
    ELSE 10 * DigitsToInt(SubSeq(s, 1, Len(s) - 1)) + DigitVal(s[Len(s)])

\* the decimal digits of a natural n
RECURSIVE IntToDigits(_)
IntToDigits(n) ==
    IF n < 10 THEN <<Digits[n + 1]>>
    ELSE IntToDigits(n \div 10) \o <<Digits[(n % 10) + 1]>>

\* '%0<w>d' % x
FormatZeroPad(w, x) ==
    LET d   == IntToDigits(IF x < 0 THEN -x ELSE x)
        sgn == IF x < 0 THEN <<"-">> ELSE <<>>
        pad == [k \in 1..(w - Len(sgn) - Len(d)) |-> "0"]
    IN  sgn \o pad \o d

\* float(s) for s over the characters 0-9 . + - : an optional sign, then
\* digits with at most one point and at least one digit; anything else is a
\* ValueError. At most 9 digits, at most 5 of them after the point.
float(s) ==
    LET signed == s # <<>> /\ s[1] \in {"+", "-"}
        neg    == signed /\ s[1] = "-"
        body   == IF signed THEN Tail(s) ELSE s
        points == {k \in 1..Len(body) : body[k] = "."}
        digs   == SelectSeq(body, IsDigit)
        nfrac  == IF points = {} THEN 0
                  ELSE Len(body) - (CHOOSE k \in points : TRUE)
        ok     == /\ \A k \in 1..Len(body) : IsDigit(body[k]) \/ body[k] = "."
                  /\ Cardinality(points) <= 1
                  /\ digs # <<>>
    IN  IF ok THEN [exc |-> "ok",
                    val |-> FloatOfRatio(neg, DigitsToInt(digs), Pow(10, nfrac))]
        ELSE [exc |-> "ValueError", val |-> FZero(FALSE)]

-----------------------------------------------------------------------------
(* class GeoCoord *)

\* GeoCoord(str): __init__ and from_str. The class attributes type and hemi
\* stay None when the last character is no hemisphere letter.
GeoCoord(str) ==
    IF str = <<>>
    THEN [exc |-> "IndexError", type |-> "None", hemi |-> "None", hms |-> FZero(FALSE)]
    ELSE LET H == upper(str[Len(str)])
             f == float(SubSeq(str, 1, Len(str) - 1))
         IN  [exc  |-> f.exc,
              type |-> IF H = "N" \/ H = "S" THEN "latitude"
                       ELSE IF H = "W" \/ H = "E" THEN "longitude"
                       ELSE "None",
              hemi |-> IF H = "N" \/ H = "S" \/ H = "W" \/ H = "E" THEN H ELSE "None",
              hms  |-> f.val]

\* The mirror image about 899 instead of 900.
sub_coord_off_by_one(self) ==
    LET x0 == (trunc(FMulInt(100, self.hms)) % 100) % 15
        x1 == trunc(FMulInt(10000, self.hms)) % 100
    IN  IF self.hemi = "N" \/ self.hemi = "E"
        THEN 60 * x0 + x1
        ELSE 899 - 60 * x0 - x1

\* def sub_coord(self)
sub_coord(self) ==
    LET x0 == (trunc(FMulInt(100, self.hms)) % 100) % 15
        x1 == trunc(FMulInt(10000, self.hms)) % 100
    IN  IF self.hemi = "N" \/ self.hemi = "E"
        THEN 60 * x0 + x1
        ELSE 900 - 60 * x0 - x1

\* def mapname(self): the integer x that is formatted
mapname_x(self) ==
    LET x == trunc(FMulInt(100, self.hms))
    IN  IF self.hemi = "N" \/ self.hemi = "E"
        THEN (x - ((x % 100) % 15)) * 100
        ELSE (x - ((x % 100) % 15) + 15) * 100

StrV(s) == [tag |-> "str", val |-> s]

\* def mapname(self): None when type is neither latitude nor longitude
mapname(self) ==
    IF self.type = "latitude" THEN StrV(<<self.hemi>> \o FormatZeroPad(6, mapname_x(self)))
    ELSE IF self.type = "longitude" THEN StrV(<<self.hemi>> \o FormatZeroPad(7, mapname_x(self)))
    ELSE NoneV

-----------------------------------------------------------------------------
(* Files, struct.unpack, int() and bytes.decode *)

\* f.read(n) at position p, for n >= 0: the bytes returned (a buffered
\* binary file raises ValueError for n < -1; the callers check that first)
read(f, p, n) ==
    IF p >= Len(f) THEN <<>> ELSE SubSeq(f, p + 1, Min(p + n, Len(f)))

\* the position after f.read(n) at position p, for n >= 0
tell_after_read(f, p, n) ==
    IF p >= Len(f) THEN p ELSE Min(p + n, Len(f))

\* unpack('>H', b)[0] of the k-th pair of bytes of b
be16(b, k) == b[2 * k - 1] * 256 + b[2 * k]

\* unpack('>h', b)[0] of the k-th pair of bytes of b
be16s(b, k) == IF be16(b, k) >= 32768 THEN be16(b, k) - 65536 ELSE be16(b, k)

\* unpack('>i', b)[0] for four bytes b
be32s(b) ==
    (IF b[1] >= 128 THEN b[1] - 256 ELSE b[1]) * 16777216
        + b[2] * 65536 + b[3] * 256 + b[4]

\* sum(unpack('>' + n*'h', b)) over the pairs lo..hi of b
RECURSIVE sum_be16s(_, _, _)
sum_be16s(b, lo, hi) ==
    IF lo > hi THEN 0
    ELSE IF lo = hi THEN be16s(b, lo)
    ELSE sum_be16s(b, lo, (lo + hi) \div 2) + sum_be16s(b, ((lo + hi) \div 2) + 1, hi)

\* The sum of the samples as the elevation codec reads them (sign and
\* magnitude), not as two's complement.
sum_be16nc(b, lo, hi) ==
    LET RECURSIVE S(_, _)
        S(l, h) == IF l > h THEN 0
                   ELSE IF l = h THEN decode_be16nc(be16(b, l)).val
                   ELSE S(l, (l + h) \div 2) + S(((l + h) \div 2) + 1, h)
    IN  S(lo, hi)

IsSpace(c) == c \in {9, 10, 11, 12, 13, 32}

RECURSIVE strip(_)
strip(b) ==
    IF b = <<>> THEN b
    ELSE IF IsSpace(b[1]) THEN strip(Tail(b))
    ELSE IF IsSpace(b[Len(b)]) THEN strip(SubSeq(b, 1, Len(b) - 1))
    ELSE b

IsDigitByte(c) == c \in 48..57

RECURSIVE DigitBytesToInt(_)
DigitBytesToInt(b) ==
    IF b = <<>> THEN 0
    ELSE 10 * DigitBytesToInt(SubSeq(b, 1, Len(b) - 1)) + (b[Len(b)] - 48)

\* int(b) for a bytes object b of at most 9 bytes: surrounding whitespace, an
\* optional sign, decimal digits with single underscores between them
int(b) ==
    LET t      == strip(b)
        signed == t # <<>> /\ t[1] \in {43, 45}
        body   == IF signed THEN Tail(t) ELSE t
        ok     == /\ body # <<>>
                  /\ \A k \in 1..Len(body) :
                        \/ IsDigitByte(body[k])
                        \/ /\ body[k] = 95
                           /\ 1 < k /\ k < Len(body)
                           /\ IsDigitByte(body[k - 1]) /\ IsDigitByte(body[k + 1])
        v      == DigitBytesToInt(SelectSeq(body, IsDigitByte))
    IN  IF ok THEN [exc |-> "ok", val |-> IF signed /\ t[1] = 45 THEN -v ELSE v]
        ELSE [exc |-> "ValueError", val |-> 0]

IsCont(b, k) == k <= Len(b) /\ b[k] \in 128..191

\* whether b[k..] is well-formed UTF-8, i.e. b.decode('utf-8') does not raise
RECURSIVE utf8_ok(_, _)
utf8_ok(b, k) ==
    IF k > Len(b) THEN TRUE
    ELSE IF b[k] < 128 THEN utf8_ok(b, k + 1)
    ELSE IF b[k] \in 194..223 THEN IsCont(b, k + 1) /\ utf8_ok(b, k + 2)
    ELSE IF b[k] = 224
         THEN k + 1 <= Len(b) /\ b[k + 1] \in 160..191 /\ IsCont(b, k + 2) /\ utf8_ok(b, k + 3)
    ELSE IF b[k] = 237
         THEN k + 1 <= Len(b) /\ b[k + 1] \in 128..159 /\ IsCont(b, k + 2) /\ utf8_ok(b, k + 3)
    ELSE IF b[k] \in 225..239
         THEN IsCont(b, k + 1) /\ IsCont(b, k + 2) /\ utf8_ok(b, k + 3)
    ELSE IF b[k] = 240
         THEN k + 1 <= Len(b) /\ b[k + 1] \in 144..191 /\ IsCont(b, k + 2)
              /\ IsCont(b, k + 3) /\ utf8_ok(b, k + 4)
    ELSE IF b[k] \in 241..243
         THEN IsCont(b, k + 1) /\ IsCont(b, k + 2) /\ IsCont(b, k + 3) /\ utf8_ok(b, k + 4)
    ELSE IF b[k] = 244
         THEN k + 1 <= Len(b) /\ b[k + 1] \in 128..143 /\ IsCont(b, k + 2)
              /\ IsCont(b, k + 3) /\ utf8_ok(b, k + 4)
    ELSE FALSE

-----------------------------------------------------------------------------
(* class DTED *)

\* the number of samples the checksum line unpacks: 901*'h'
ChecksumCount == 901

Raise(e, m, a, b, c) == [exc |-> e, msg |-> m, index |-> a, expected |-> b, computed |-> c]

NoExc == Raise("ok", "", 0, 0, 0)

\* The object before __init__ has run. attrs is the set of attribute names
\* bound on the object; a field whose name is not in attrs holds a placeholder.
EmptyTile == [attrs |-> {}, longitude |-> <<>>, latitude |-> <<>>,
              longival10 |-> 0, latival10 |-> 0,
              vacc |-> NoneV, num_long |-> 0, num_lat |-> 0, mult_acc |-> 0,
              data |-> <<>>]

\* Lines 129-154: the header statement that raises, numbered in the order of
\* the source (1 magic, 2 version, 3 longitude, 4 latitude, 5 longival,
\* 6 latival, 7 vacc, 8 num_long, 9 num_lat, 10 mult_acc), or 0 if none does.
header_fail(f) ==
    IF read(f, 0, 3) # <<85, 72, 76>> THEN 1
    ELSE IF read(f, 3, 1) # <<49>> THEN 2
    ELSE IF ~utf8_ok(read(f, 4, 8), 1) THEN 3
    ELSE IF ~utf8_ok(read(f, 12, 8), 1) THEN 4
    ELSE IF int(read(f, 20, 4)).exc # "ok" THEN 5
    ELSE IF int(read(f, 24, 4)).exc # "ok" THEN 6
    ELSE IF read(f, 28, 4) # <<78, 65, 32, 32>> /\ int(read(f, 28, 4)).exc # "ok" THEN 7
    ELSE IF int(read(f, 47, 4)).exc # "ok" THEN 8
    ELSE IF int(read(f, 51, 4)).exc # "ok" THEN 9
    ELSE IF int(read(f, 55, 1)).exc # "ok" THEN 10
    ELSE 0

\* the exception of the header statement k
header_exc(k) ==
    IF k = 0 THEN NoExc
    ELSE IF k = 1 THEN Raise("ParseError", "wrong magic", -1, 0, 0)
    ELSE IF k = 2 THEN Raise("ParseError", "wrong version", -1, 0, 0)
    ELSE IF k \in {3, 4} THEN Raise("UnicodeDecodeError", "", -1, 0, 0)
    ELSE Raise("ValueError", "", -1, 0, 0)

\* the number of header bytes asked for up to and including the f.read of
\* statement k (all 80 bytes of the UHL if none raises)
header_end(k) ==
    IF k = 0 THEN 80
    ELSE <<3, 4, 12, 20, 24, 28, 32, 51, 55, 56>>[k]

\* whether the assignment of statement j has run when statement k raises
header_done(j, k) == k = 0 \/ j < k

\* The attributes bound when statement k raises (all of them for k = 0):
\* data (line 117) and mapname (line 122) come first, usc and uref follow vacc.
header_attrs(k) ==
    {"data", "mapname"}
        \cup (IF header_done(3, k) THEN {"longitude"} ELSE {})
        \cup (IF header_done(4, k) THEN {"latitude"} ELSE {})
        \cup (IF header_done(5, k) THEN {"longival"} ELSE {})
        \cup (IF header_done(6, k) THEN {"latival"} ELSE {})
        \cup (IF header_done(7, k) THEN {"vacc", "usc", "uref"} ELSE {})
        \cup (IF header_done(8, k) THEN {"num_long"} ELSE {})
        \cup (IF header_done(9, k) THEN {"num_lat"} ELSE {})
        \cup (IF header_done(10, k) THEN {"mult_acc", "reserved"} ELSE {})

\* The object when statement k raises, or after the header for k = 0.
\* longival10 and latival10 are the integers that the code divides by 10.
header_tile(f, k) ==
    [attrs      |-> header_attrs(k),
     longitude  |-> IF header_done(3, k) THEN read(f, 4, 8) ELSE <<>>,
     latitude   |-> IF header_done(4, k) THEN read(f, 12, 8) ELSE <<>>,
     longival10 |-> IF header_done(5, k) THEN int(read(f, 20, 4)).val ELSE 0,
     latival10  |-> IF header_done(6, k) THEN int(read(f, 24, 4)).val ELSE 0,
     vacc       |-> IF header_done(7, k) /\ read(f, 28, 4) # <<78, 65, 32, 32>>
                    THEN IntV(int(read(f, 28, 4)).val) ELSE NoneV,
     num_long   |-> IF header_done(8, k) THEN int(read(f, 47, 4)).val ELSE 0,
     num_lat    |-> IF header_done(9, k) THEN int(read(f, 51, 4)).val ELSE 0,
     mult_acc   |-> IF header_done(10, k) THEN int(read(f, 55, 1)).val ELSE 0,
     data       |-> <<>>]

\* f.tell() when statement k raises; for k = 0 after the two seeks of
\* lines 160-161, which move past the end of a short file
header_pos(f, k) ==
    IF k = 0 THEN Min(header_end(k), Len(f)) + 648 + 2700
    ELSE Min(header_end(k), Len(f))

\* the header read with statement k raising (k = 0: none)
header_result(f, k) ==
    [exc |-> header_exc(k), tile |-> header_tile(f, k), pos |-> header_pos(f, k)]

\* __init__ and fromfile, lines 117-161: data = [], mapname, the UHL header read
\* from position 0, and the two seeks. Returns the exception raised (or
\* NoExc), the object as the statements left it, and f.tell().
parse_header(f) == header_result(f, header_fail(f))

\* the number of 'h' items in the format of the checksum line (line 189)
checksum_count(num_lat) == ChecksumCount

\* The record's index field compared with 0 instead of the loop index.
long_cnt_expected_zero(n) == 0

\* the value long_cnt is compared with in iteration n (line 176)
long_cnt_expected(n) == n

\* line 195: [ decode_be16nc(x) for x in unpack('>' + num_lat*'H', rowdata) ]
decode_row(rowdata, num_lat) ==
    [k \in 1..num_lat |-> decode_be16nc(be16(rowdata, k))]

\* an iteration that raises e after asking for k bytes of the record at p
record_raise(f, p, k, e) ==
    [exc |-> e, row |-> <<>>, pos |-> tell_after_read(f, p, k)]

\* fromfile, lines 168-195: iteration n of the record loop at position p.
\* Returns the exception raised (or NoExc), the row appended, and f.tell():
\* an iteration that raises has read the record up to the failing statement.
read_record(f, p, n, num_lat) ==
    LET magic    == read(f, p, 1)
        seq      == read(f, p + 1, 3)
        long_cnt == read(f, p + 4, 2)
        lat_cnt  == read(f, p + 6, 2)
        rowdata  == read(f, p + 8, 2 * num_lat)
        cks      == read(f, p + 8 + 2 * num_lat, 4)
        checksum == be32s(cks)
        rowsum   == sum_be16s(rowdata, 1, checksum_count(num_lat))
        all      == 12 + 2 * num_lat
    IN  IF Len(magic) # 1 THEN record_raise(f, p, 1, Raise("struct.error", "", n, 0, 0))
        ELSE IF magic[1] # 170
             THEN record_raise(f, p, 1,
                      Raise("ParseError", "wrong magic in data block", n, 0, 0))
        ELSE IF Len(seq) # 3 THEN record_raise(f, p, 4, Raise("struct.error", "", n, 0, 0))
        ELSE IF Len(long_cnt) # 2
             THEN record_raise(f, p, 6, Raise("struct.error", "", n, 0, 0))
        ELSE IF be16(long_cnt, 1) # long_cnt_expected(n)
             THEN record_raise(f, p, 6,
                      Raise("ParseError", "unexpected longitude number", n,
                            long_cnt_expected(n), be16(long_cnt, 1)))
        ELSE IF Len(lat_cnt) # 2
             THEN record_raise(f, p, 8, Raise("struct.error", "", n, 0, 0))
        ELSE IF be16(lat_cnt, 1) # 0
             THEN record_raise(f, p, 8,
                      Raise("ParseError", "latitude count not zero", n, 0,
                            be16(lat_cnt, 1)))
        ELSE IF 2 * num_lat < 0
             THEN record_raise(f, p, 8, Raise("ValueError", "", n, 0, 0))
        ELSE IF Len(cks) # 4 THEN record_raise(f, p, all, Raise("struct.error", "", n, 0, 0))
        ELSE IF Len(rowdata) # 2 * checksum_count(num_lat)
             THEN record_raise(f, p, all, Raise("struct.error", "", n, 0, 0))
        ELSE IF rowsum # checksum
             THEN record_raise(f, p, all,
                      Raise("ParseError", "checksum failed on longitude", n,
                            checksum, rowsum))
        ELSE IF Len(rowdata) # 2 * Max(num_lat, 0)
             THEN record_raise(f, p, all, Raise("struct.error", "", n, 0, 0))
        ELSE [exc |-> NoExc, row |-> decode_row(rowdata, num_lat),
              pos |-> tell_after_read(f, p, all)]

\* DTED(file) for an existing file with bytes f, from iteration n on:
\* [exc, tile, pos], the exception raised (or NoExc), the object's attributes
\* and f.tell() when the with block is left
RECURSIVE load_records(_, _, _, _)
load_records(f, p, n, t) ==
    IF n >= t.num_long THEN [exc |-> NoExc, tile |-> t, pos |-> p]
    ELSE LET r == read_record(f, p, n, t.num_lat)
         IN  IF r.exc.exc # "ok" THEN [exc |-> r.exc, tile |-> t, pos |-> r.pos]
             ELSE load_records(f, r.pos, n + 1,
                               [t EXCEPT !.data = Append(t.data, r.row)])

\* DTED(file): __init__ and fromfile
DTED(f) ==
    LET h == parse_header(f)
    IN  IF h.exc.exc # "ok" THEN h
        ELSE load_records(f, h.pos, 0, h.tile)

-----------------------------------------------------------------------------
(* def height(coordstr) *)

\* coordstr.split(' ')
RECURSIVE split(_)
split(s) ==
    IF \A k \in 1..Len(s) : s[k] # " " THEN <<s>>
    ELSE LET k == CHOOSE j \in 1..Len(s) : s[j] = " " /\ \A m \in 1..(j - 1) : s[m] # " "
         IN  <<SubSeq(s, 1, k - 1)>> \o split(SubSeq(s, k + 1, Len(s)))

Suffix == <<"_", "S", "R", "T", "M", "_", "1", "_", "D", "E", "M", ".", "d", "t", "2">>

\* list[k] of Python: a negative k counts from the end
PyIndexOk(list, k) == -Len(list) <= k /\ k < Len(list)

PyIndex(list, k) == list[(IF k < 0 THEN k + Len(list) ELSE k) + 1]

HRaise(e, names) == [exc |-> e, val |-> NoneV, opened |-> names, dted |-> Unset]

\* The second branch binding the coordinates the wrong way round.
assign_lat_long_swapped(c0, c1) ==
    IF c0.type = "latitude" /\ c1.type = "longitude"
    THEN [ok |-> TRUE, lat |-> c0, long |-> c1]
    ELSE IF c0.type = "longitude" /\ c1.type = "latitude"
    THEN [ok |-> TRUE, lat |-> c0, long |-> c1]
    ELSE [ok |-> FALSE, lat |-> c0, long |-> c1]

\* lines 202-207: which of c0, c1 is lat and which is long
assign_lat_long(c0, c1) ==
    IF c0.type = "latitude" /\ c1.type = "longitude"
    THEN [ok |-> TRUE, lat |-> c0, long |-> c1]
    ELSE IF c0.type = "longitude" /\ c1.type = "latitude"
    THEN [ok |-> TRUE, lat |-> c1, long |-> c0]
    ELSE [ok |-> FALSE, lat |-> c0, long |-> c1]

\* line 211: dted.data[long.sub_coord()][lat.sub_coord()] on the loaded tile
height_index(d, li, lj, name) ==
    IF d.exc.exc # "ok" THEN HRaise(d.exc.exc, <<name>>)
    ELSE IF ~PyIndexOk(d.tile.data, li)
         THEN [HRaise("IndexError", <<name>>) EXCEPT !.dted = d.tile]
    ELSE IF ~PyIndexOk(PyIndex(d.tile.data, li), lj)
         THEN [HRaise("IndexError", <<name>>) EXCEPT !.dted = d.tile]
    ELSE [exc |-> "ok",
          val |-> PyIndex(PyIndex(d.tile.data, li), lj),
          opened |-> <<name>>,
          dted |-> d.tile]

\* line 209: dted = DTED(name), open() failing for a name that is no file
height_open(a, name, fs) ==
    IF name \notin DOMAIN fs THEN HRaise("FileNotFoundError", <<name>>)
    ELSE height_index(DTED(fs[name]), sub_coord(a.long), sub_coord(a.lat), name)

\* lines 202-209: the usage error, or the file name of the tile
height_axes(a, fs) ==
    IF ~a.ok THEN HRaise("Exception", <<>>)
    ELSE height_open(a, mapname(a.long).val \o mapname(a.lat).val \o Suffix, fs)

\* line 201, a third element of the generator: it is built before the
\* unpacking reports too many values
height_third(c2) == HRaise(IF c2.exc # "ok" THEN c2.exc ELSE "ValueError", <<>>)

\* line 201, the second element
height_second(c0, c1, parts, fs) ==
    IF c1.exc # "ok" THEN HRaise(c1.exc, <<>>)
    ELSE IF Len(parts) > 2 THEN height_third(GeoCoord(parts[3]))
    ELSE height_axes(assign_lat_long(c0, c1), fs)

\* line 201, the first element
height_first(c0, parts, fs) ==
    IF c0.exc # "ok" THEN HRaise(c0.exc, <<>>)
    ELSE IF Len(parts) < 2 THEN HRaise("ValueError", <<>>)
    ELSE height_second(c0, GeoCoord(parts[2]), parts, fs)

\* line 201: c0, c1 = (GeoCoord(s) for s in split); str.split always yields
\* at least one element
height_unpack(parts, fs) == height_first(GeoCoord(parts[1]), parts, fs)

\* height(coordstr) with the files of fs (a function from names to bytes):
\* [exc, val, opened, dted], the exception raised (or "ok"), the value
\* returned, the names passed to open() and the object bound to dted.
height(cs, fs) == height_unpack(split(cs), fs)

-----------------------------------------------------------------------------
(* Inputs: files *)

\* the most data records a generated file holds
MaxRecords == 2

Zeros(n) == [k \in 1..n |-> 0]

Spaces(n) == [k \in 1..n |-> 32]

\* four ASCII decimal digits
Field4(n) == <<48 + ((n \div 1000) % 10), 48 + ((n \div 100) % 10),
               48 + ((n \div 10) % 10), 48 + (n % 10)>>

\* "-001"
FieldMinusOne == <<45, 48, 48, 49>>

\* "NA  "
FieldNA == <<78, 65, 32, 32>>

\* the 3428 bytes before the data records: UHL, DSI and ACC
HeaderBytes(magic, version, vacc, numLong, numLat) ==
    magic \o version
        \o <<48, 49, 48, 48, 48, 48, 48, 69>>      \* longitude origin 0100000E
        \o <<52, 55, 48, 48, 48, 48, 78, 32>>      \* latitude origin 470000N
        \o Field4(10) \o Field4(10)
        \o vacc
        \o <<85, 32, 32>> \o Spaces(12)
        \o numLong \o numLat
        \o <<48>>
        \o Spaces(24)
        \o Zeros(648) \o Zeros(2700)

GoodHeader(numLong, numLat) == HeaderBytes(<<85, 72, 76>>, <<49>>, FieldNA, numLong, numLat)

\* the samples of record n, w of them, as unsigned 16-bit values: kind "A"
\* holds small positive values, kind "B" the patterns 0xFFFF, 0x8001, 0x7FFF
\* and 0xFFFE and values of either sign
Samples(kind, n, w) ==
    [k \in 1..w |->
        IF kind = "A" THEN 1000 * n + k
        ELSE IF k = 1 THEN 65535
        ELSE IF k = 2 THEN 32769
        ELSE IF k = 3 THEN 32767
        ELSE IF k = 4 THEN 65534
        ELSE IF k % 2 = 0 THEN 32768 + (k % 50) + n
        ELSE k % 50]

SampleBytes(smp) ==
    [j \in 1..(2 * Len(smp)) |->
        IF j % 2 = 1 THEN smp[(j + 1) \div 2] \div 256 ELSE smp[j \div 2] % 256]

\* the big-endian two's-complement bytes of a signed 32-bit value
Int32Bytes(c) == <<(c \div 16777216) % 256, (c \div 65536) % 256, (c \div 256) % 256, c % 256>>

RecordBytes(sentinel, longCnt, latCnt, smp, checksum) ==
    <<sentinel, 0, 0, longCnt % 256>>
        \o <<longCnt \div 256, longCnt % 256>>
        \o <<latCnt \div 256, latCnt % 256>>
        \o SampleBytes(smp)
        \o Int32Bytes(checksum)

TrueSum(smp) == sum_be16s(SampleBytes(smp), 1, Len(smp))

\* a well-formed record n with w samples
GoodRecord(kind, n, w) ==
    RecordBytes(170, n, 0, Samples(kind, n, w), TrueSum(Samples(kind, n, w)))

RecordKinds == {"A", "B", "sentinel", "long", "lat", "sum", "sumnc"}

\* record n with w samples: well-formed ("A", "B") or with one field wrong
RecordOfKind(kind, n, w) ==
    IF kind \in {"A", "B"} THEN GoodRecord(kind, n, w)
    ELSE IF kind = "sentinel"
         THEN RecordBytes(171, n, 0, Samples("A", n, w), TrueSum(Samples("A", n, w)))
    ELSE IF kind = "long"
         THEN RecordBytes(170, (n + 2) % 3, 0, Samples("A", n, w), TrueSum(Samples("A", n, w)))
    ELSE IF kind = "lat"
         THEN RecordBytes(170, n, 1, Samples("A", n, w), TrueSum(Samples("A", n, w)))
    ELSE IF kind = "sum"
         THEN RecordBytes(170, n, 0, Samples("A", n, w), TrueSum(Samples("A", n, w)) + 1)
    ELSE RecordBytes(170, n, 0, Samples("B", n, w),
                     sum_be16nc(SampleBytes(Samples("B", n, w)), 1, w))

\* records 0..n-1, well-formed, of alternating kinds
RECURSIVE GoodRecords(_, _)
GoodRecords(n, w) ==
    IF n = 0 THEN <<>>
    ELSE GoodRecords(n - 1, w) \o GoodRecord(IF n % 2 = 1 THEN "B" ELSE "A", n - 1, w)

\* the record streams: well-formed records followed by at most one record of
\* any kind (nothing after a rejected record is read)
Bodies(w) ==
    {GoodRecords(n, w) : n \in 0..MaxRecords}
        \cup {GoodRecords(n - 1, w) \o RecordOfKind(k, n - 1, w) :
                n \in 1..MaxRecords, k \in RecordKinds}

\* the numbers of samples per record that the generated headers declare
Widths == {ChecksumCount, ChecksumCount - 1, 2}

CountFields == {Field4(n) : n \in 0..MaxRecords} \cup {FieldMinusOne}

Truncate(f, c) == SubSeq(f, 1, Len(f) - c)

\* the lengths a file is cut to inside or right after the UHL header
HeaderCuts == {0, 2, 4, 10, 12, 20, 22, 26, 30, 49, 53, 55, 56, 80}

\* the first byte (counted from 1) of longitude, latitude, longival, latival,
\* vacc, num_long, num_lat and mult_acc
HeaderFieldStarts == {5, 13, 21, 25, 29, 48, 52, 56}

\* the files a load is run on: every count field with every record stream,
\* whole or cut short, and files with a malformed header: a wrong magic or
\* version, a field that is no number or no UTF-8, a header cut short
Files ==
    UNION {{Truncate(GoodHeader(nl, Field4(w)) \o b, c) :
                nl \in CountFields, b \in Bodies(w), c \in {0, 1, 5}} : w \in Widths}
    \cup {HeaderBytes(<<85, 72, 88>>, <<49>>, FieldNA, Field4(1), Field4(ChecksumCount)),
          HeaderBytes(<<85, 72, 76>>, <<50>>, FieldNA, Field4(1), Field4(ChecksumCount)),
          HeaderBytes(<<85, 72, 76>>, <<49>>, Field4(12), Field4(0), Field4(ChecksumCount)),
          HeaderBytes(<<85, 72, 76>>, <<49>>, FieldNA, FieldNA, Field4(ChecksumCount)),
          HeaderBytes(<<85, 72, 76>>, <<49>>, FieldNA, Field4(1), <<45, 57, 48, 49>>)
              \o GoodRecord("A", 0, ChecksumCount),
          SubSeq(GoodHeader(Field4(1), Field4(ChecksumCount)), 1, 50)}
    \cup {SubSeq(GoodHeader(Field4(1), Field4(ChecksumCount)), 1, c) : c \in HeaderCuts}
    \cup {[GoodHeader(Field4(1), Field4(ChecksumCount)) EXCEPT ![k] = 255] :
            k \in HeaderFieldStarts}

-----------------------------------------------------------------------------
(* State machines *)

NoCoord == [exc |-> "unbuilt", type |-> "None", hemi |-> "None", hms |-> FZero(FALSE)]

CodecIdle == raw = 0 /\ elev = Unset

CoordIdle == token = <<>> /\ coord = NoCoord /\ sub = Unset /\ frag = Unset

LoadIdle == /\ file = <<>> /\ pos = 0 /\ tile = EmptyTile /\ i = 0
            /\ outcome = NoExc /\ dted = Unset

HeightIdle == coordstr = <<>> /\ opened = <<>> /\ hres = Unset

codecVars == <<raw, elev>>

coordVars == <<token, coord, sub, frag>>

loadVars == <<file, pos, tile, i, outcome, dted>>

heightVars == <<coordstr, opened, hres>>

(* decode_be16nc on every 16-bit value *)

InitCodec ==
    /\ pc = "call"
    /\ raw \in 0..65535
    /\ elev = Unset
    /\ CoordIdle /\ LoadIdle /\ HeightIdle

Decode ==
    /\ pc = "call"
    /\ elev' = decode_be16nc(raw)
    /\ pc' = "returned"
    /\ UNCHANGED <<raw, coordVars, loadVars, heightVars>>

NextCodec == Decode

SpecCodec == InitCodec /\ [][NextCodec]_vars

(* DTED(file) on the generated files, one step per loop iteration *)

InitLoad ==
    /\ pc = "open"
    /\ file \in Files
    /\ pos = 0 /\ tile = EmptyTile /\ i = 0 /\ outcome = NoExc /\ dted = Unset
    /\ CodecIdle /\ CoordIdle /\ HeightIdle

\* the header ends with h: the loop begins or the exception leaves fromfile
HeaderEnds(h) ==
    /\ pc' = IF h.exc.exc # "ok" THEN "raised" ELSE "records"
    /\ outcome' = h.exc
    /\ tile' = h.tile
    /\ pos' = h.pos

\* lines 116-161
LoadHeader ==
    /\ pc = "open"
    /\ HeaderEnds(parse_header(file))
    /\ UNCHANGED <<file, i, dted, codecVars, coordVars, heightVars>>

\* the iteration ends with r: the row is appended or the exception leaves
RecordEnds(r) ==
    /\ pc' = IF r.exc.exc # "ok" THEN "raised" ELSE pc
    /\ outcome' = r.exc
    /\ pos' = r.pos
    /\ tile' = IF r.exc.exc # "ok" THEN tile
               ELSE [tile EXCEPT !.data = Append(@, r.row)]
    /\ i' = IF r.exc.exc # "ok" THEN i ELSE i + 1

\* lines 168-195, one iteration
LoadRecord ==
    /\ pc = "records"
    /\ i < tile.num_long
    /\ RecordEnds(read_record(file, pos, i, tile.num_lat))
    /\ UNCHANGED <<file, dted, codecVars, coordVars, heightVars>>

\* the loop is over: the constructor returns the object
LoadReturn ==
    /\ pc = "records"
    /\ i >= tile.num_long
    /\ pc' = "returned"
    /\ dted' = tile
    /\ UNCHANGED <<file, pos, tile, i, outcome, codecVars, coordVars, heightVars>>

NextLoad == LoadHeader \/ LoadRecord \/ LoadReturn

SpecLoad == InitLoad /\ [][NextLoad]_vars

-----------------------------------------------------------------------------
(* Inputs: coordinate tokens and the files of the working directory *)

TwoDigits(n) == <<Digits[(n \div 10) + 1], Digits[(n % 10) + 1]>>

\* the token D.MMSSH
Token(d, m, sec, h) == IntToDigits(d) \o <<".">> \o TwoDigits(m) \o TwoDigits(sec) \o <<h>>

\* the degrees, minutes and seconds fields of the generated tokens
TokenDegrees == {1, 10}

TokenMinutes == 0..59

TokenSeconds == 0..99

\* tokens that are no D.MMSSH: no hemisphere letter, a lower-case one, a sign,
\* fewer digits, two points, nothing before the letter, the empty token
OddTokens ==
    {Token(47, 25, 16, "X"), Token(10, 59, 11, "5"), Token(10, 59, 11, "w"),
     Token(47, 25, 16, "n"), <<"-">> \o Token(10, 59, 11, "E"),
     <<"4", "7", "N">>, <<".", "5", "S">>, <<"1", ".", "2", ".", "3", "N">>,
     <<"N">>, <<>>}

Tokens ==
    {Token(d, m, sec, h) : d \in TokenDegrees, m \in TokenMinutes,
                           sec \in TokenSeconds, h \in {"N", "S", "E", "W"}}
        \cup OddTokens

\* a tile of three longitude lines; every cell of lines 0 and 2 is distinct
TileBytes ==
    GoodHeader(Field4(1 + 2), Field4(ChecksumCount))
        \o GoodRecord("A", 0, ChecksumCount)
        \o GoodRecord("B", 1, ChecksumCount)
        \o GoodRecord("A", 2, ChecksumCount)

TileName(lonFrag, latFrag) == lonFrag \o latFrag \o Suffix

\* the working directory: names to bytes
FileSystem ==
    [name \in {TileName(lo, la) :
                 lo \in {<<"E", "0", "1", "0", "0", "0", "0", "0">>,
                         <<"W", "0", "1", "0", "1", "5", "0", "0">>},
                 la \in {<<"N", "4", "7", "0", "0", "0", "0">>,
                         <<"S", "4", "7", "1", "5", "0", "0">>,
                         <<"S", "1", "0", "3", "0", "0", "0">>}}
        |-> TileBytes]

HeightLonTokens ==
    {Token(10, 0, 0, "E"), Token(10, 0, 2, "E"), Token(10, 0, 3, "E"),
     Token(10, 0, 1, "e"), Token(10, 14, 61, "W"), Token(10, 14, 58, "W"),
     Token(10, 15, 0, "W")}

HeightLatTokens ==
    {Token(47, 0, 0, "N"), Token(47, 0, 7, "N"), Token(47, 14, 59, "N"),
     Token(47, 14, 61, "S"), Token(47, 0, 1, "S"), Token(10, 29, 0, "S"),
     Token(47, 25, 16, "N")}

HeightOddTokens == {Token(47, 0, 0, "X"), <<"4", "x", ".", "0", "N">>, <<>>}

HeightTokens == HeightLonTokens \cup HeightLatTokens \cup HeightOddTokens

CoordStrs ==
    {a \o <<" ">> \o b : a \in HeightTokens, b \in HeightTokens}
        \cup {Token(47, 0, 0, "N"),
              Token(47, 0, 0, "N") \o <<" ">> \o Token(10, 0, 0, "E") \o <<" ">>
                  \o Token(10, 0, 0, "E"),
              Token(47, 0, 0, "N") \o <<" ">> \o Token(10, 0, 0, "E") \o <<" ">>
                  \o <<"4", "x", ".", "0", "N">>}

-----------------------------------------------------------------------------
(* GeoCoord(str), then sub_coord() and mapname() on the object *)

InitCoord ==
    /\ pc = "call"
    /\ token \in Tokens
    /\ coord = NoCoord /\ sub = Unset /\ frag = Unset
    /\ CodecIdle /\ LoadIdle /\ HeightIdle

\* lines 48-66
Construct ==
    /\ pc = "call"
    /\ coord' = GeoCoord(token)
    /\ pc' = IF coord'.exc = "ok" THEN "built" ELSE "raised"
    /\ UNCHANGED <<token, sub, frag, codecVars, loadVars, heightVars>>

\* lines 84-91
CallSubCoord ==
    /\ pc = "built"
    /\ sub = Unset
    /\ sub' = IntV(sub_coord(coord))
    /\ UNCHANGED <<pc, token, coord, frag, codecVars, loadVars, heightVars>>

\* lines 96-107
CallMapname ==
    /\ pc = "built"
    /\ frag = Unset
    /\ frag' = mapname(coord)
    /\ UNCHANGED <<pc, token, coord, sub, codecVars, loadVars, heightVars>>

NextCoord == Construct \/ CallSubCoord \/ CallMapname

SpecCoord == InitCoord /\ [][NextCoord]_vars

(* height(coordstr) in the working directory *)

InitHeight ==
    /\ pc = "call"
    /\ coordstr \in CoordStrs
    /\ opened = <<>> /\ hres = Unset
    /\ CodecIdle /\ CoordIdle /\ LoadIdle

\* the call ends with r: the value returned or the exception raised
HeightEnds(r) ==
    /\ hres' = [exc |-> r.exc, val |-> r.val]
    /\ opened' = r.opened
    /\ dted' = r.dted
    /\ pc' = IF r.exc = "ok" THEN "returned" ELSE "raised"

\* lines 199-211
Height ==
    /\ pc = "call"
    /\ HeightEnds(height(coordstr, FileSystem))
    /\ UNCHANGED <<coordstr, file, pos, tile, i, outcome, codecVars, coordVars>>

NextHeight == Height

SpecHeight == InitHeight /\ [][NextHeight]_vars

Spec == SpecLoad

-----------------------------------------------------------------------------
(* Claims about the elevation codec (SpecCodec) *)

\* C1: decode_be16nc returns None exactly for 0xFFFF, -(raw - 0x8000) for
\* every raw in 0x8000..0xFFFE and raw itself for every raw in 0..0x7FFF; the
\* number -32767 is never returned.
C1_DecodeContract ==
    pc = "returned" =>
        /\ (elev = NoneV) <=> (raw = 65535)
        /\ (raw \in 32768..65534 => elev = IntV(-(raw - 32768)))
        /\ (raw \in 0..32767 => elev = IntV(raw))
        /\ elev # IntV(-32767)

C1_Witness == pc = "returned" /\ raw = 65535 /\ elev = NoneV

-----------------------------------------------------------------------------
(* Claims about the tile decoder (SpecLoad) *)

\* the offset of the first data record (UHL 80, DSI 648, ACC 2700)
DataStart == 80 + 648 + 2700

\* the header was read without an exception
HeaderParsed == pc \in {"records", "returned"} \/ (pc = "raised" /\ outcome.index >= 0)

\* the offset of the n-th data record of the stream
RecOff(n) == DataStart + n * (12 + 2 * tile.num_lat)

Present(off, n) == off + n <= Len(file)

U16At(off) == file[off + 1] * 256 + file[off + 2]

\* the n-th record carries sentinel 0xAA, longitude index n, latitude index 0
Conforms(n) ==
    /\ Present(RecOff(n), 8)
    /\ file[RecOff(n) + 1] = 170
    /\ U16At(RecOff(n) + 4) = n
    /\ U16At(RecOff(n) + 6) = 0

\* the n-th record carries a wrong sentinel, longitude index or latitude index
Violates(n) ==
    \/ Present(RecOff(n), 1) /\ file[RecOff(n) + 1] # 170
    \/ Present(RecOff(n), 6) /\ file[RecOff(n) + 1] = 170 /\ U16At(RecOff(n) + 4) # n
    \/ /\ Present(RecOff(n), 8) /\ file[RecOff(n) + 1] = 170
       /\ U16At(RecOff(n) + 4) = n /\ U16At(RecOff(n) + 6) # 0

FramingMessages == {"wrong magic in data block", "unexpected longitude number",
                    "latitude count not zero"}

\* C3: a load returns only if every record 0..num_long-1 of the stream
\* carries sentinel 0xAA, longitude index i and latitude index 0; the first
\* record that does not makes the load raise ParseError at that record: nothing
\* past that record's eight framing bytes is read, no row is added and no
\* object is returned.
C3_RecordFraming ==
    HeaderParsed =>
        /\ (pc = "returned" => \A n \in 0..(tile.num_long - 1) : Conforms(n))
        /\ \A n \in 0..(tile.num_long - 1) :
              (Violates(n) /\ \A k \in 0..(n - 1) : Conforms(k)) =>
                  /\ i <= n
                  /\ Len(tile.data) <= n
                  /\ pos <= RecOff(n) + 8
                  /\ pc # "returned"
                  /\ dted = Unset
                  /\ ((pc = "raised" /\ i = n) =>
                        /\ outcome.exc = "ParseError"
                        /\ outcome.index = n
                        /\ outcome.msg \in FramingMessages)

C3_Witness ==
    /\ pc = "raised"
    /\ outcome.exc = "ParseError"
    /\ outcome.msg = "unexpected longitude number"
    /\ outcome.index = 1
    /\ Len(tile.data) = 1
    /\ pos = RecOff(1) + 6
    /\ Violates(1)

\* the checksum stored after the n-th record's samples
StoredChecksum(n) ==
    be32s(SubSeq(file, RecOff(n) + 8 + 2 * tile.num_lat + 1,
                 RecOff(n) + 8 + 2 * tile.num_lat + 4))

\* the sum of the n-th record's num_lat samples read as two's complement
SampleSum(n) ==
    sum_be16s(SubSeq(file, RecOff(n) + 8 + 1, RecOff(n) + 8 + 2 * tile.num_lat),
              1, tile.num_lat)

\* C2: for every num_lat of the header and every record that passed the
\* sentinel and index checks, the record is accepted if its stored checksum
\* equals the two's-complement sum of its num_lat samples, and otherwise the
\* load raises ParseError naming the record, the stored and the computed sum.
C2_ChecksumDecides ==
    (HeaderParsed /\ tile.num_lat >= 0) =>
        \A n \in 0..(tile.num_long - 1) :
            (Conforms(n) /\ Present(RecOff(n), 12 + 2 * tile.num_lat)) =>
                /\ (n < i => StoredChecksum(n) = SampleSum(n))
                /\ ((pc = "raised" /\ i = n) =>
                      /\ StoredChecksum(n) # SampleSum(n)
                      /\ outcome = Raise("ParseError", "checksum failed on longitude",
                                         n, StoredChecksum(n), SampleSum(n)))

\* C8: a load that returns has num_long rows of num_lat entries each, entry
\* [i][j] being decode_be16nc of the j-th sample of the i-th record, for every
\* num_long and num_lat of the header, and every declared record was in the
\* stream.
C8_GridShape ==
    pc = "returned" =>
        /\ Len(dted.data) = dted.num_long
        /\ \A n \in 1..Len(dted.data) :
              /\ Present(RecOff(n - 1), 12 + 2 * dted.num_lat)
              /\ Len(dted.data[n]) = dted.num_lat
              /\ \A j \in 1..Len(dted.data[n]) :
                    dted.data[n][j] =
                        decode_be16nc(U16At(RecOff(n - 1) + 8 + 2 * (j - 1)))
        /\ \A n \in 0..(dted.num_long - 1) : Present(RecOff(n), 12 + 2 * dted.num_lat)

-----------------------------------------------------------------------------
(* Claims about the coordinate model (SpecCoord) *)

Hemispheres == {"N", "S", "E", "W"}

\* the token is digits, a point, four digits and one more character
IsDMMSS(t) ==
    /\ Len(t) >= 7
    /\ t[Len(t) - 5] = "."
    /\ \A k \in (1..(Len(t) - 6)) \cup ((Len(t) - 4)..(Len(t) - 1)) : IsDigit(t[k])

TokDeg(t) == DigitsToInt(SubSeq(t, 1, Len(t) - 6))

TokMin(t) == DigitsToInt(SubSeq(t, Len(t) - 4, Len(t) - 3))

TokSec(t) == DigitsToInt(SubSeq(t, Len(t) - 2, Len(t) - 1))

Opposite(h) == IF h = "N" THEN "S" ELSE IF h = "S" THEN "N"
               ELSE IF h = "E" THEN "W" ELSE "E"

\* the same magnitude in the opposite hemisphere
Mirror(t) == SubSeq(t, 1, Len(t) - 1) \o <<Opposite(upper(t[Len(t)]))>>

\* the integer after the hemisphere letter of a fragment
FragInt(f) == DigitsToInt(Tail(f.val))

\* C5: GeoCoord(str) raises the format error whenever the last character of
\* str, upper-cased, is none of N, S, E, W; no object with type or hemi unset
\* is constructed.
C5_HemisphereRequired ==
    /\ ((pc # "call" /\ token # <<>> /\ upper(token[Len(token)]) \notin Hemispheres)
          => (pc = "raised" /\ coord.exc = "ParseError"))
    /\ (pc = "built" => (coord.type # "None" /\ coord.hemi # "None"))

\* C7: two coordinates of the same D.MMSS magnitude in opposite hemispheres
\* have sub_coord values that sum to 900, and the integer in the S/W mapname
\* is the integer in the N/E mapname plus 1500.
C7_Mirror ==
    (/\ pc = "built" /\ IsDMMSS(token) /\ coord.hemi # "None"
     /\ sub # Unset /\ frag # Unset) =>
        LET o == GeoCoord(Mirror(token))
        IN  /\ sub.val + sub_coord(o) = 900
            /\ IF coord.hemi \in {"S", "W"}
               THEN FragInt(frag) = FragInt(mapname(o)) + 1500
               ELSE FragInt(mapname(o)) = FragInt(frag) + 1500

C7_Witness ==
    /\ pc = "built"
    /\ token = Token(10, 59, 11, "W")
    /\ sub = IntV(49)
    /\ frag = StrV(<<"W", "0", "1", "0", "6", "0", "0", "0">>)

\* C9: for a four-decimal D.MMSS with minutes and seconds in 0..59, sub_coord
\* is in 0..899 for N/E and in 1..900 for S/W.
C9_SubCoordRange ==
    (/\ pc = "built" /\ sub # Unset /\ IsDMMSS(token)
     /\ TokMin(token) <= 59 /\ TokSec(token) <= 59) =>
        /\ (coord.hemi \in {"N", "E"} => sub.val \in 0..899)
        /\ (coord.hemi \in {"S", "W"} => sub.val \in 1..900)

\* C10: for minutes in 0..59 the integer in mapname is D*10000 + M*100 with D
\* the degrees of the coordinate and M one of 0, 15, 30, 45, in either
\* hemisphere.
C10_MapnameAligned ==
    (/\ pc = "built" /\ frag # Unset /\ frag # NoneV /\ IsDMMSS(token)
     /\ TokMin(token) <= 59) =>
        FragInt(frag) \in {TokDeg(token) * 10000 + m * 100 : m \in {0, 15, 30, 45}}

-----------------------------------------------------------------------------
(* Claims about the lookup (SpecHeight) *)

\* coordstr is two tokens that both construct a GeoCoord
TwoCoords ==
    /\ Len(split(coordstr)) = 2
    /\ GeoCoord(split(coordstr)[1]).exc = "ok"
    /\ GeoCoord(split(coordstr)[2]).exc = "ok"

Coord0 == GeoCoord(split(coordstr)[1])

Coord1 == GeoCoord(split(coordstr)[2])

OneOfEach == {Coord0.type, Coord1.type} = {"latitude", "longitude"}

LonCoord == IF Coord0.type = "longitude" THEN Coord0 ELSE Coord1

LatCoord == IF Coord0.type = "latitude" THEN Coord0 ELSE Coord1

Swapped == split(coordstr)[2] \o <<" ">> \o split(coordstr)[1]

\* C6: two coordinates of the same axis make height raise the usage error
\* before any file is opened; with one of each, in either order, the file
\* opened is mapname of the longitude, then mapname of the latitude, then the
\* suffix, the value returned is data[sub_coord of the longitude][sub_coord
\* of the latitude], and the call with the tokens swapped ends the same way.
C6_OneOfEach ==
    (pc # "call" /\ TwoCoords) =>
        /\ (~OneOfEach => (hres.exc = "Exception" /\ opened = <<>>))
        /\ OneOfEach =>
              /\ opened = <<mapname(LonCoord).val \o mapname(LatCoord).val \o Suffix>>
              /\ (hres.exc = "ok" =>
                    hres.val = PyIndex(PyIndex(dted.data, sub_coord(LonCoord)),
                                       sub_coord(LatCoord)))
              /\ LET r == height(Swapped, FileSystem)
                 IN  /\ r.exc = hres.exc /\ r.val = hres.val /\ r.opened = opened

C6_Witness ==
    /\ pc = "returned"
    /\ coordstr = Token(10, 0, 2, "E") \o <<" ">> \o Token(47, 0, 7, "N")
    /\ hres = [exc |-> "ok", val |-> IntV(2008)]

\* C4: height raises IndexError whenever sub_coord of the longitude is outside
\* 0..num_long-1 or sub_coord of the latitude is outside 0..num_lat-1 of the
\* loaded grid, a negative value included.
C4_IndexChecked ==
    (pc # "call" /\ TwoCoords /\ OneOfEach /\ dted # Unset) =>
        ((\/ sub_coord(LonCoord) \notin 0..(dted.num_long - 1)
          \/ sub_coord(LatCoord) \notin 0..(dted.num_lat - 1))
            => hres.exc = "IndexError")

====
